---- MODULE Spec2Model ----
(***************************************************************************)
(* A model of src/email_agent.py: the Flask handlers /confirm-send,        *)
(* /history and /generate-email, the SendGrid dispatcher and the SQLite     *)
(* history table.                                                           *)
(*                                                                          *)
(* Text is a sequence of atoms.  An atom is a chunk of characters that no   *)
(* operation of the program splits: one character (" ", "@", "{"), or a     *)
(* word ("subject", "json").                                                *)
(***************************************************************************)
EXTENDS Integers, Sequences, FiniteSets, TLC

VARIABLES
    env,        \* the process environment read by os.getenv
    db,         \* email_history.db: the emails table and its AUTOINCREMENT counter
    pc,         \* pc[r]: where confirm-send request r stands
    form,       \* form[r]: request.form / request.files of request r
    args,       \* args[r]: the arguments of send_email_via_sendgrid for r
    payload,    \* payload[r]: the JSON payload r posts to SendGrid
    resp,       \* resp[r]: the HTTP response of request r
    posts,      \* posts[r]: the transport's call counter for request r
    accepted,   \* accepted[r]: how many of these calls the transport answered 202
    inserts,    \* the committed INSERTs in commit order: who made it, its rowid
    emails,     \* the rows a /history request hands to the template
    gen         \* the last /generate-email exchange: form, model reply, response

vars == <<env, db, pc, form, args, payload, resp, posts, accepted,
          inserts, emails, gen>>

----------------------------------------------------------------------------
(* Bounds *)

\* concurrent confirm-send requests
NumReq == 2

Reqs == 1..NumReq

----------------------------------------------------------------------------
(* Python strings *)

Whitespace == {" ", "\n", "\t"}

RECURSIVE lstrip(_)
lstrip(s) == IF s # <<>> /\ Head(s) \in Whitespace THEN lstrip(Tail(s)) ELSE s

RECURSIVE rstrip(_)
rstrip(s) ==
    IF s # <<>> /\ s[Len(s)] \in Whitespace
    THEN rstrip(SubSeq(s, 1, Len(s) - 1))
    ELSE s

\* str.strip()
strip(s) == rstrip(lstrip(s))

\* body.replace("\n", "<br>")
RECURSIVE replace_newlines(_)
replace_newlines(s) ==
    IF s = <<>> THEN <<>>
    ELSE <<(IF Head(s) = "\n" THEN "<br>" ELSE Head(s))>> \o replace_newlines(Tail(s))

----------------------------------------------------------------------------
(* Environment *)

\* os.getenv(name): a variable is unset (None) or holds a string
Unset == [set |-> FALSE, value |-> <<>>]
EnvValue(s) == [set |-> TRUE, value |-> s]
getenv(name) == env[name]
\* Python truthiness of an os.getenv result
Truthy(v) == v.set /\ v.value # <<>>

EnvChoices(s) == {Unset, EnvValue(<<>>), EnvValue(s)}

----------------------------------------------------------------------------
(* base64.b64encode(file_bytes).decode("utf-8") *)

B64Alphabet ==
    << "A","B","C","D","E","F","G","H","I","J","K","L","M","N","O","P",
       "Q","R","S","T","U","V","W","X","Y","Z","a","b","c","d","e","f",
       "g","h","i","j","k","l","m","n","o","p","q","r","s","t","u","v",
       "w","x","y","z","0","1","2","3","4","5","6","7","8","9","+","/" >>

B64Char(n) == B64Alphabet[n + 1]

RECURSIVE b64encode(_)
b64encode(bytes) ==
    IF bytes = <<>> THEN <<>>
    ELSE IF Len(bytes) = 1 THEN
        << B64Char(bytes[1] \div 4), B64Char((bytes[1] % 4) * 16), "=", "=" >>
    ELSE IF Len(bytes) = 2 THEN
        << B64Char(bytes[1] \div 4),
           B64Char((bytes[1] % 4) * 16 + bytes[2] \div 16),
           B64Char((bytes[2] % 16) * 4), "=" >>
    ELSE
        << B64Char(bytes[1] \div 4),
           B64Char((bytes[1] % 4) * 16 + bytes[2] \div 16),
           B64Char((bytes[2] % 16) * 4 + bytes[3] \div 64),
           B64Char(bytes[3] % 64) >> \o b64encode(SubSeq(bytes, 4, Len(bytes)))

----------------------------------------------------------------------------
(* The history table *)

SetMax(S) == CHOOSE x \in S : \A y \in S : y <= x

\* INTEGER PRIMARY KEY AUTOINCREMENT: one more than the largest id the table
\* has ever held (sqlite_sequence)
\* a faulty variant: the counter is read and not advanced
NextIdReuse(d) == d.sqlite_sequence
NextId(d) == SetMax({d.sqlite_sequence} \cup {e.id : e \in d.emails}) + 1

\* save_to_db: one INSERT in one committed transaction.  The sent_time column
\* is written from the wall clock and read by no code; rows are modelled
\* without it.
save_to_db(d, to_email, subject, body) ==
    LET id == NextId(d) IN
    [ emails |-> d.emails \cup
          {[ id |-> id, receiver_email |-> to_email, subject |-> subject,
             body |-> body ]},
      sqlite_sequence |-> id ]

\* SELECT * FROM emails ORDER BY id DESC
RECURSIVE OrderByIdDesc(_)
OrderByIdDesc(rows) ==
    IF rows = {} THEN <<>>
    ELSE LET first == CHOOSE e \in rows : \A f \in rows : f.id <= e.id
         IN <<first>> \o OrderByIdDesc(rows \ {first})

----------------------------------------------------------------------------
(* The SendGrid dispatcher *)

NoAttachment == [present |-> FALSE, filename |-> <<>>, data |-> <<>>]

\* attachment and getattr(attachment, "filename", "")
HasAttachment(attachment) == attachment.present /\ attachment.filename # <<>>

\* lines 70-73: the configuration error send_email_via_sendgrid raises, <<>> if none
\* a faulty variant: the sender address is not checked
ConfigErrorKeyOnly ==
    IF ~Truthy(getenv("SENDGRID_API_KEY"))
    THEN <<"SENDGRID_API_KEY", " is missing in Render Environment Variables.">>
    ELSE <<>>
ConfigError ==
    IF ~Truthy(getenv("SENDGRID_API_KEY"))
    THEN <<"SENDGRID_API_KEY", " is missing in Render Environment Variables.">>
    ELSE IF ~Truthy(getenv("MAIL_FROM"))
    THEN <<"MAIL_FROM", " is missing (must be a verified sender in SendGrid).">>
    ELSE <<>>

\* lines 75-95 (and again 115-123)
BuildPayload(a) ==
    [ to |-> a.to_email,
      from |-> getenv("MAIL_FROM").value,
      subject |-> a.subject,
      plain |-> a.body,
      html |-> replace_newlines(a.body),
      attachments |->
          IF HasAttachment(a.attachment)
          THEN << [ content |-> b64encode(a.attachment.data),
                    type |-> "application/octet-stream",
                    filename |-> a.attachment.filename,
                    disposition |-> "attachment" ] >>
          ELSE <<>> ]

NoPayload ==
    [ to |-> <<>>, from |-> <<>>, subject |-> <<>>, plain |-> <<>>,
      html |-> <<>>, attachments |-> <<>> ]

\* What requests.post can do: raise (timeout=30, connection error), or return
\* a response with a status code and a body
TransportOutcomes ==
    { [raised |-> TRUE, status_code |-> 0, detail |-> <<"Read timed out. (read timeout=30)">>],
      [raised |-> FALSE, status_code |-> 202, detail |-> <<>>],
      [raised |-> FALSE, status_code |-> 400, detail |-> <<"{'errors': [{'message': 'Does not contain a valid address.'}]}">>],
      [raised |-> FALSE, status_code |-> 400, detail |-> <<"Bad Request">>] }

\* f"SendGrid failed ({response.status_code}): {detail}"
SendGridFailed(o) ==
    <<"SendGrid failed (", ToString(o.status_code), "): ">> \o o.detail

\* response.status_code != 202
\* a faulty variant: the status is not checked
RejectedNever(o) == FALSE
Rejected(o) == o.status_code # 202

----------------------------------------------------------------------------
(* /confirm-send *)

NoResponse == [status |-> 0, key |-> "", text |-> <<>>]

\* jsonify({"error": ...}), status
ErrorResponse(status, text) == [status |-> status, key |-> "error", text |-> text]

\* line 229: jsonify({"error": f"Send failed: {str(e)}"}), 500
SendFailed(e) == ErrorResponse(500, <<"Send failed: ">> \o e)

\* line 225
SentResponse == [status |-> 200, key |-> "message", text |-> <<"Email sent successfully!">>]

\* a faulty variant: the fields are not trimmed
ReadFormRaw(f) ==
    [ to_email |-> f.receiver_email, subject |-> f.subject, body |-> f.body,
      attachment |-> f.attachment ]
\* lines 216-219
ReadForm(f) ==
    [ to_email |-> strip(f.receiver_email),
      subject |-> strip(f.subject),
      body |-> strip(f.body),
      attachment |-> f.attachment ]

\* line 221: not receiver_email or not subject or not body
MissingFields(a) == a.to_email = <<>> \/ a.subject = <<>> \/ a.body = <<>>

\* The form values a caller may post.  request.form.get(name, "") reads a
\* missing field as the empty string.
RecipientInputs ==
    { <<>>, <<" ">>, <<" ", "a", "@", "b", ".", "c", " ">>, <<"a", "b">> }
SubjectInputs == { <<>>, <<"Hi", " ">> }
BodyInputs == { <<"\n">>, <<"x", "\n", "y">> }
ReportPdf == [present |-> TRUE, filename |-> <<"report.pdf">>, data |-> <<77, 97>>]

SendForms ==
    [ receiver_email : RecipientInputs, subject : SubjectInputs,
      body : BodyInputs, attachment : {NoAttachment} ]
    \cup { [ receiver_email |-> <<"a", "@", "b", ".", "c">>, subject |-> <<"Re">>,
             body |-> <<"z">>, attachment |-> ReportPdf ] }

NoForm ==
    [ receiver_email |-> <<>>, subject |-> <<>>, body |-> <<>>,
      attachment |-> NoAttachment ]
NoArgs ==
    [ to_email |-> <<>>, subject |-> <<>>, body |-> <<>>,
      attachment |-> NoAttachment ]

\* A /history request is served before any other handler takes its next
\* step: its rows are rendered and dropped
HistoryServed == emails' = <<>>

\* The request ends with response rsp
Respond(r, rsp) ==
    /\ resp' = [resp EXCEPT ![r] = rsp]
    /\ pc' = [pc EXCEPT ![r] = "done"]

\* lines 214-224 and 66-95: the request arrives, its fields are read and
\* checked, the configuration is checked and the payload is built
ConfirmSend(r) ==
    /\ pc[r] = "idle"
    /\ \E f \in SendForms :
        LET a == ReadForm(f) IN
        /\ form' = [form EXCEPT ![r] = f]
        /\ IF MissingFields(a)
           THEN /\ Respond(r, ErrorResponse(400,
                       <<"Missing required fields (receiver_email/subject/body).">>))
                /\ UNCHANGED <<args, payload>>
           ELSE /\ args' = [args EXCEPT ![r] = a]
                /\ IF ConfigError # <<>>
                   THEN /\ Respond(r, SendFailed(ConfigError))
                        /\ UNCHANGED payload
                   ELSE /\ payload' = [payload EXCEPT ![r] = BuildPayload(a)]
                        /\ pc' = [pc EXCEPT ![r] = "post1"]
                        /\ UNCHANGED resp
    /\ HistoryServed
    /\ UNCHANGED <<env, db, posts, accepted, inserts, gen>>

\* requests.post and the check of its status: the request goes on to `next`
\* when the status is 202 and ends with an error otherwise.  The transport
\* counts the calls it gets and those it answers 202.
Post(r, next) ==
    /\ posts' = [posts EXCEPT ![r] = @ + 1]
    /\ \E o \in TransportOutcomes :
        /\ accepted' = [accepted EXCEPT ![r] =
               IF ~o.raised /\ o.status_code = 202 THEN @ + 1 ELSE @]
        /\ IF o.raised THEN Respond(r, SendFailed(o.detail))
           ELSE IF Rejected(o) THEN Respond(r, SendFailed(SendGridFailed(o)))
           ELSE pc' = [pc EXCEPT ![r] = next] /\ UNCHANGED resp
    /\ HistoryServed
    /\ UNCHANGED <<env, db, form, args, payload, inserts, gen>>

\* lines 97-111
Post1(r) == pc[r] = "post1" /\ Post(r, "save1")

\* lines 125-137
Post2(r) == pc[r] = "post2" /\ Post(r, "save2")

\* save_to_db(to_email, subject, body) commits
Insert(r) ==
    /\ db' = save_to_db(db, args[r].to_email, args[r].subject, args[r].body)
    /\ inserts' = Append(inserts, [by |-> r, id |-> db'.sqlite_sequence])

\* the ids of the rows request r inserted
Saved(r) == { inserts[i].id : i \in { j \in 1..Len(inserts) : inserts[j].by = r } }

\* sqlite3 raises (the database is locked, the disk is full) and line 227
\* catches it
InsertFails(r) ==
    /\ Respond(r, SendFailed(<<"database is locked">>))
    /\ UNCHANGED <<db, inserts>>

\* line 113
Save1(r) ==
    /\ pc[r] = "save1"
    /\ \/ /\ Insert(r)
          /\ pc' = [pc EXCEPT ![r] = "post2"]
          /\ UNCHANGED resp
       \/ InsertFails(r)
    /\ HistoryServed
    /\ UNCHANGED <<env, form, args, payload, posts, accepted, gen>>

\* line 139, then line 225
Save2(r) ==
    /\ pc[r] = "save2"
    /\ \/ /\ Insert(r)
          /\ Respond(r, SentResponse)
       \/ InsertFails(r)
    /\ HistoryServed
    /\ UNCHANGED <<env, form, args, payload, posts, accepted, gen>>

----------------------------------------------------------------------------
(* /history *)

\* lines 234-239: the rows handed to history.html
history ==
    /\ emails' = OrderByIdDesc(db.emails)
    /\ UNCHANGED <<env, db, pc, form, args, payload, resp, posts,
                   accepted, inserts, gen>>

----------------------------------------------------------------------------
(* json.loads *)

\* A JSON value: t is its type, s its text (a string's content, a number's
\* digits, a literal's name, a member's key) and items its parts (an array's
\* elements, an object's members, a member's value)
JStr(s) == [t |-> "str", s |-> s, items |-> <<>>]
JNum(s) == [t |-> "num", s |-> s, items |-> <<>>]
JLit(name) == [t |-> name, s |-> <<name>>, items |-> <<>>]
JArr(items) == [t |-> "arr", s |-> <<>>, items |-> items]
JObj(members) == [t |-> "obj", s |-> <<>>, items |-> members]
JMember(k, v) == [t |-> "member", s |-> k, items |-> <<v>>]

Quote == "\""
Digits == {"0", "1", "2", "3", "4", "5", "6", "7", "8", "9"}
Literals == {"null", "true", "false"}

\* A parse: the value read and the text after it, or the JSONDecodeError
Parsed(v, rest) == [ok |-> TRUE, val |-> v, rest |-> rest, err |-> <<>>]
DecodeError(msg) == [ok |-> FALSE, val |-> JLit("null"), rest |-> <<>>, err |-> <<msg>>]

\* dict[k] = v: a repeated key keeps its place and takes the last value
SetMember(members, k, v) ==
    IF \E i \in 1..Len(members) : members[i].s = k
    THEN [i \in 1..Len(members) |->
             IF members[i].s = k THEN JMember(k, v) ELSE members[i]]
    ELSE Append(members, JMember(k, v))

\* the text after an opening quote, up to the closing one
RECURSIVE ParseString(_, _)
ParseString(s, acc) ==
    IF s = <<>> THEN DecodeError("Unterminated string starting at")
    ELSE IF Head(s) = Quote THEN Parsed(JStr(acc), Tail(s))
    ELSE IF Head(s) \in {"\n", "\t"} THEN DecodeError("Invalid control character at")
    ELSE ParseString(Tail(s), Append(acc, Head(s)))

RECURSIVE ParseNumber(_, _)
ParseNumber(s, acc) ==
    IF s # <<>> /\ Head(s) \in Digits
    THEN ParseNumber(Tail(s), Append(acc, Head(s)))
    ELSE Parsed(JNum(acc), s)

RECURSIVE ParseValue(_), ParseElements(_, _), ParseMembers(_, _)

ParseValue(s0) ==
    LET s == lstrip(s0) IN
    IF s = <<>> THEN DecodeError("Expecting value")
    ELSE IF Head(s) = Quote THEN ParseString(Tail(s), <<>>)
    ELSE IF Head(s) \in Digits THEN ParseNumber(s, <<>>)
    ELSE IF Head(s) \in Literals THEN Parsed(JLit(Head(s)), Tail(s))
    ELSE IF Head(s) = "[" THEN
        LET t == lstrip(Tail(s)) IN
        IF t # <<>> /\ Head(t) = "]" THEN Parsed(JArr(<<>>), Tail(t))
        ELSE ParseElements(t, <<>>)
    ELSE IF Head(s) = "{" THEN
        LET t == lstrip(Tail(s)) IN
        IF t # <<>> /\ Head(t) = "}" THEN Parsed(JObj(<<>>), Tail(t))
        ELSE ParseMembers(t, <<>>)
    ELSE DecodeError("Expecting value")

\* the elements of an array, after "[" or ","
ParseElements(s, acc) ==
    LET e == ParseValue(s) IN
    IF ~e.ok THEN e
    ELSE LET t == lstrip(e.rest) IN
         IF t = <<>> THEN DecodeError("Expecting ',' delimiter")
         ELSE IF Head(t) = "]" THEN Parsed(JArr(Append(acc, e.val)), Tail(t))
         ELSE IF Head(t) = "," THEN ParseElements(Tail(t), Append(acc, e.val))
         ELSE DecodeError("Expecting ',' delimiter")

\* the members of an object, after "{" or ","
ParseMembers(s0, acc) ==
    LET s == lstrip(s0) IN
    IF s = <<>> \/ Head(s) # Quote
    THEN DecodeError("Expecting property name enclosed in double quotes")
    ELSE LET k == ParseString(Tail(s), <<>>) IN
         IF ~k.ok THEN k
         ELSE LET c == lstrip(k.rest) IN
              IF c = <<>> \/ Head(c) # ":" THEN DecodeError("Expecting ':' delimiter")
              ELSE LET v == ParseValue(Tail(c)) IN
                   IF ~v.ok THEN v
                   ELSE LET t == lstrip(v.rest)
                            members == SetMember(acc, k.val.s, v.val)
                        IN
                        IF t = <<>> THEN DecodeError("Expecting ',' delimiter")
                        ELSE IF Head(t) = "}" THEN Parsed(JObj(members), Tail(t))
                        ELSE IF Head(t) = "," THEN ParseMembers(Tail(t), members)
                        ELSE DecodeError("Expecting ',' delimiter")

\* json.loads(s): one value, with nothing but whitespace after it.  The
\* position that ends a JSONDecodeError's message is left out.
json_loads(s) ==
    LET v == ParseValue(s) IN
    IF ~v.ok THEN v
    ELSE IF lstrip(v.rest) # <<>> THEN DecodeError("Extra data")
    ELSE v

----------------------------------------------------------------------------
(* parse_json_response *)

\* the code-fence marker, three backquotes (a TLA+ string cannot hold a backquote)
Fence == "'''"

\* cleaned.replace("```json", "")
RECURSIVE remove_json_fences(_)
remove_json_fences(s) ==
    IF s = <<>> THEN <<>>
    ELSE IF Len(s) >= 2 /\ s[1] = Fence /\ s[2] = "json"
    THEN remove_json_fences(SubSeq(s, 3, Len(s)))
    ELSE <<Head(s)>> \o remove_json_fences(Tail(s))

\* cleaned.replace("```", "")
remove_fences(s) == SelectSeq(s, LAMBDA c : c # Fence)

\* lines 49-51
clean_response(text) ==
    LET cleaned == strip(text) IN
    IF cleaned # <<>> /\ Head(cleaned) = Fence
    THEN strip(remove_fences(remove_json_fences(cleaned)))
    ELSE cleaned

\* lines 48-52; `text or ""` has turned a missing text into ""
parse_json_response(text) == json_loads(clean_response(text))

----------------------------------------------------------------------------
(* /generate-email *)

\* client = genai.Client(...) if GEMINI_API_KEY else None
client == Truthy(getenv("GEMINI_API_KEY"))

\* jsonify({"error": text}), status
JsonError(status, text) ==
    [status |-> status, json |-> JObj(<<JMember(<<"error">>, JStr(text))>>)]

\* lines 167-171
ReadGenForm(f) ==
    [ receiver_name |-> strip(f.receiver_name),
      sender_name |-> strip(f.sender_name),
      mail_body |-> strip(f.mail_body),
      tone |-> strip(f.tone),
      email_type |-> strip(f.email_type) ]

\* line 173
MissingGenFields(g) ==
    g.receiver_name = <<>> \/ g.sender_name = <<>> \/ g.mail_body = <<>> \/ g.tone = <<>>

\* lines 179-196; formatted_date is tomorrow's date as strftime("%d %B %Y")
\* writes it
Prompt(g, formatted_date) ==
    <<"\n", "Write a professional email.", "\n", "\n", "Email Type: ">> \o g.email_type
    \o <<"\n", "Tone: ">> \o g.tone
    \o <<"\n", "Replace any word like tomorrow with ", formatted_date, ".", "\n",
         "No placeholders.", "\n", "Return strictly valid JSON only.", "\n", "\n",
         "{", "\n", " ", " ", Quote, "subject", Quote, ":", " ", Quote, "email subject", Quote, ",",
         "\n", " ", " ", Quote, "body", Quote, ":", " ", Quote, "email body", Quote, "\n", "}",
         "\n", "\n", "Sender: ">> \o g.sender_name
    \o <<"\n", "Receiver: ">> \o g.receiver_name
    \o <<"\n", "Purpose: ">> \o g.mail_body \o <<"\n">>

\* key in value, for the values Python can search
Iterable(v) == v.t \in {"obj", "arr", "str"}
Contains(v, key) ==
    IF v.t = "obj" THEN \E i \in 1..Len(v.items) : v.items[i].s = <<key>>
    ELSE IF v.t = "arr"
    THEN \E i \in 1..Len(v.items) : v.items[i].t = "str" /\ v.items[i].s = <<key>>
    ELSE \E i \in 1..Len(v.s) : v.s[i] = key

\* type(v).__name__
TypeName(v) ==
    IF v.t = "num" THEN "int" ELSE IF v.t = "null" THEN "NoneType" ELSE "bool"

\* line 204: "subject" not in email_content or "body" not in email_content
InvalidShape(v) == ~Contains(v, "subject") \/ ~Contains(v, "body")

\* lines 203-210: the response to a model reply whose text is `text`
ReplyResponse(text) ==
    LET p == parse_json_response(text) IN
    IF ~p.ok THEN JsonError(500, p.err)
    ELSE IF ~Iterable(p.val)
    THEN JsonError(500, <<"argument of type '", TypeName(p.val), "' is not iterable">>)
    ELSE IF InvalidShape(p.val)
    THEN JsonError(500, <<"Model returned invalid JSON shape.">>)
    ELSE [status |-> 200, json |-> p.val]

\* a JSON string literal
Lit(word) == <<Quote, word, Quote>>

DraftJson ==
    <<"{">> \o Lit("subject") \o <<":", " ">> \o Lit("Hi") \o <<",", " ">>
    \o Lit("body") \o <<":", " ">> \o <<Quote, "Dear", " ", "Bob", Quote>> \o <<"}">>

\* The texts the model may reply with
ReplyTexts ==
    { DraftJson,
      <<" ", "\n">> \o DraftJson \o <<"\n">>,
      <<Fence, "json", "\n">> \o DraftJson \o <<"\n", Fence>>,
      <<Fence, "\n">> \o DraftJson \o <<"\n", Fence, "\n">>,
      <<"Here", " ", "is", ":", "\n", Fence, "json", "\n">> \o DraftJson \o <<"\n", Fence>>,
      <<>>,
      <<"Hi">>,
      <<"{">> \o Lit("subject") \o <<":">> \o Lit("Hi"),
      <<"{">> \o Lit("subject") \o <<":">> \o Lit("Hi") \o <<"}">>,
      <<"{">> \o Lit("body") \o <<":">> \o Lit("Hi") \o <<"}">>,
      <<"{", "}">>,
      <<"{">> \o Lit("subject") \o <<":">> \o Lit("Hi") \o <<",">> \o Lit("body")
          \o <<":">> \o Lit("Hi") \o <<",">> \o Lit("tone") \o <<":">> \o Lit("formal") \o <<"}">>,
      <<"{">> \o Lit("subject") \o <<":", Quote, Quote, ",">> \o Lit("body")
          \o <<":">> \o Lit("Hi") \o <<"}">>,
      <<"{">> \o Lit("subject") \o <<":", "1", "2", ",">> \o Lit("body")
          \o <<":", "null", "}">>,
      <<"{">> \o Lit("subject") \o <<":">> \o Lit("Hi") \o <<",">> \o Lit("body")
          \o <<":", "{">> \o Lit("text") \o <<":">> \o Lit("Hi") \o <<"}", "}">>,
      <<"{">> \o Lit("subject") \o <<":">> \o Lit("Hi") \o <<",">> \o Lit("body")
          \o <<":", Quote, "Dear", "\n", "Bob", Quote, "}">>,
      <<"{">> \o Lit("subject") \o <<":">> \o Lit("Hi") \o <<",">> \o Lit("subject")
          \o <<":">> \o Lit("Re") \o <<",">> \o Lit("body") \o <<":">> \o Lit("Hi") \o <<"}">>,
      <<"[">> \o Lit("subject") \o <<",", " ">> \o Lit("body") \o <<"]">>,
      <<"[">> \o DraftJson \o <<"]">>,
      <<"[", "]">>,
      <<Quote, "subject", " ", "and", " ", "body", Quote>>,
      Lit("Hi"),
      <<"1">>,
      <<"null">>,
      <<"true">>,
      DraftJson \o DraftJson }

\* What client.models.generate_content can do: raise, or return a response
\* whose text is a string or None
ModelOutcomes ==
    { [raised |-> TRUE, has_text |-> FALSE, text |-> <<"429 RESOURCE_EXHAUSTED.">>],
      [raised |-> TRUE, has_text |-> FALSE, text |-> <<"503 UNAVAILABLE.">>],
      [raised |-> FALSE, has_text |-> FALSE, text |-> <<>>] }
    \cup { [raised |-> FALSE, has_text |-> TRUE, text |-> t] : t \in ReplyTexts }

NotCalled == [raised |-> FALSE, has_text |-> FALSE, text |-> <<"not called">>]

GenFormInputs ==
    [ receiver_name : { <<>>, <<" ", "Bob">> },
      sender_name : { <<" ">>, <<"Alice">> },
      mail_body : { <<>>, <<"ask", " ", "for", " ", "a", " ", "meeting", " ", "tomorrow">> },
      tone : { <<>>, <<"formal">> },
      email_type : { <<>>, <<"Request">> } ]

\* (datetime.now() + timedelta(days=1)).strftime("%d %B %Y")
FormattedDates == { "01 January 2026", "29 February 2028" }

\* lines 162-210
generate_email ==
    /\ \E f \in GenFormInputs :
        LET g == ReadGenForm(f) IN
        IF ~client
        THEN gen' = [ form |-> f, prompt |-> <<>>, reply |-> NotCalled,
                      resp |-> JsonError(500, <<"GEMINI_API_KEY not set on server.">>) ]
        ELSE IF MissingGenFields(g)
        THEN gen' = [ form |-> f, prompt |-> <<>>, reply |-> NotCalled,
                      resp |-> JsonError(400, <<"Missing required fields for generation.">>) ]
        ELSE \E d \in FormattedDates, o \in ModelOutcomes :
            gen' = [ form |-> f, prompt |-> Prompt(g, d), reply |-> o,
                     resp |-> IF o.raised THEN JsonError(500, o.text)
                              ELSE ReplyResponse(IF o.has_text THEN o.text ELSE <<>>) ]
    /\ UNCHANGED <<env, db, pc, form, args, payload, resp, posts, accepted,
                   inserts, emails>>

----------------------------------------------------------------------------

\* no /generate-email request has come
NoGen ==
    [ form |-> [ receiver_name |-> <<>>, sender_name |-> <<>>, mail_body |-> <<>>,
                 tone |-> <<>>, email_type |-> <<>> ],
      prompt |-> <<>>, reply |-> NotCalled,
      resp |-> [status |-> 0, json |-> JLit("null")] ]

\* After import: the table exists and is empty (init_db), no request has come
Started ==
    /\ db = [emails |-> {}, sqlite_sequence |-> 0]
    /\ pc = [r \in Reqs |-> "idle"]
    /\ form = [r \in Reqs |-> NoForm]
    /\ args = [r \in Reqs |-> NoArgs]
    /\ payload = [r \in Reqs |-> NoPayload]
    /\ resp = [r \in Reqs |-> NoResponse]
    /\ posts = [r \in Reqs |-> 0]
    /\ accepted = [r \in Reqs |-> 0]
    /\ inserts = <<>>
    /\ emails = <<>>
    /\ gen = NoGen

\* The deployments in which mail is sent: any mail configuration
Init ==
    /\ \E k \in EnvChoices(<<"SG.key">>), m \in EnvChoices(<<"me@x.io">>) :
           env = [ SENDGRID_API_KEY |-> k, MAIL_FROM |-> m,
                   GEMINI_API_KEY |-> EnvValue(<<"AI.key">>) ]
    /\ Started

Next ==
    \/ \E r \in Reqs : ConfirmSend(r)
    \/ \E r \in Reqs : Post1(r)
    \/ \E r \in Reqs : Save1(r)
    \/ \E r \in Reqs : Post2(r)
    \/ \E r \in Reqs : Save2(r)
    \/ history

Spec == Init /\ [][Next]_vars

\* The deployments in which drafts are generated: any model configuration
GenInit ==
    /\ \E k \in EnvChoices(<<"AI.key">>) :
           env = [ SENDGRID_API_KEY |-> EnvValue(<<"SG.key">>),
                   MAIL_FROM |-> EnvValue(<<"me@x.io">>),
                   GEMINI_API_KEY |-> k ]
    /\ Started

GenNext == generate_email

GenSpec == GenInit /\ [][GenNext]_vars

----------------------------------------------------------------------------
(* Properties *)

Done(r) == pc[r] = "done"

\* the fields of request r as the handler trims them
Trimmed(r) ==
    [ to_email |-> strip(form[r].receiver_email),
      subject |-> strip(form[r].subject),
      body |-> strip(form[r].body) ]

\* row e carries the fields t
Carries(e, t) ==
    e.receiver_email = t.to_email /\ e.subject = t.subject /\ e.body = t.body

\* some field of request r is empty after trimming
EmptyField(r) ==
    Trimmed(r).to_email = <<>> \/ Trimmed(r).subject = <<>> \/ Trimmed(r).body = <<>>

\* the mail configuration is complete
Configured == Truthy(env["SENDGRID_API_KEY"]) /\ Truthy(env["MAIL_FROM"])

\* the response reports a status other than 202 from the transport
TransportError(rsp) ==
    rsp.key = "error" /\ Len(rsp.text) >= 2 /\ rsp.text[2] = "SendGrid failed ("

\* local@domain.tld: one "@" after a non-empty local part, a "." inside the
\* domain, no whitespace
IsValidEmail(s) ==
    /\ \A i \in 1..Len(s) : s[i] \notin Whitespace
    /\ Cardinality({i \in 1..Len(s) : s[i] = "@"}) = 1
    /\ \E i \in 2..Len(s) :
        /\ s[i] = "@"
        /\ \E j \in (i + 2)..(Len(s) - 1) : s[j] = "."

RECURSIVE SumOver(_, _)
SumOver(f, S) ==
    IF S = {} THEN 0
    ELSE LET x == CHOOSE y \in S : TRUE IN f[x] + SumOver(f, S \ {x})

\* C1: a confirm-send request that ends with the success acknowledgment has
\* added exactly one record to the history, and that record carries the
\* request's recipient, subject and body.
C1_OneRecordPerSend ==
    \A r \in Reqs :
        (Done(r) /\ resp[r] = SentResponse) =>
            \E e \in db.emails : Saved(r) = {e.id} /\ Carries(e, Trimmed(r))

\* C2: a confirm-send request that ends with an error because the transport
\* answered a POST with a status other than 202 has added no record to the
\* history.
C2_NoRecordOnTransportError ==
    \A r \in Reqs : (Done(r) /\ TransportError(resp[r])) => Saved(r) = {}

\* C3: a confirm-send request POSTs to the mail transport at most once.
C3_AtMostOnePost == \A r \in Reqs : posts[r] <= 1

\* C4: in a deployment whose mail configuration is complete, a confirm-send
\* request whose trimmed recipient is non-empty and malformed never calls the
\* transport and creates no history record, and the response it ends with is
\* a client error.
C4_MalformedRecipientRejected ==
    \A r \in Reqs :
        (/\ Configured
         /\ pc[r] # "idle"
         /\ Trimmed(r).to_email # <<>>
         /\ ~IsValidEmail(Trimmed(r).to_email)) =>
            /\ posts[r] = 0
            /\ Saved(r) = {}
            /\ Done(r) => resp[r].status \in 400..499

\* C5: a confirm-send request with a recipient, subject or body that is empty
\* after trimming ends with status 400 and an error body, never calls the
\* transport and creates no record; and every record of the history has a
\* non-empty recipient, subject and body.
C5_MissingFieldsRejected ==
    /\ \A r \in Reqs :
        (pc[r] # "idle" /\ EmptyField(r)) =>
            /\ Done(r)
            /\ resp[r].status = 400
            /\ resp[r].key = "error"
            /\ posts[r] = 0
            /\ Saved(r) = {}
    /\ \A e \in db.emails :
        e.receiver_email # <<>> /\ e.subject # <<>> /\ e.body # <<>>

\* C5's case: a request whose recipient is only whitespace was refused while
\* the history holds a record of another request
C5_Witness ==
    \E r \in Reqs :
        /\ Done(r)
        /\ form[r].receiver_email = <<" ">>
        /\ strip(form[r].subject) # <<>>
        /\ strip(form[r].body) # <<>>
        /\ resp[r].status = 400
        /\ db.emails # {}

\* C6: a confirm-send request with valid fields, made while the mail API key
\* or the sender address is missing, ends with status 500 and an error that
\* names a missing variable, before any call to the transport and without a
\* history record.
C6_MissingConfigReported ==
    \A r \in Reqs :
        (pc[r] # "idle" /\ ~EmptyField(r) /\ ~Configured) =>
            /\ Done(r)
            /\ resp[r].status = 500
            /\ resp[r].key = "error"
            /\ \E name \in {"SENDGRID_API_KEY", "MAIL_FROM"} :
                /\ ~Truthy(env[name])
                /\ \E i \in 1..Len(resp[r].text) : resp[r].text[i] = name
            /\ posts[r] = 0
            /\ Saved(r) = {}

\* C6's case: the key is set, the sender address is unset, and a request with
\* valid fields has been answered
C6_Witness ==
    \E r \in Reqs :
        /\ Done(r)
        /\ ~EmptyField(r)
        /\ Truthy(env["SENDGRID_API_KEY"])
        /\ ~env["MAIL_FROM"].set
        /\ resp[r].status = 500

\* C7: the identifiers of the inserted rows are unique and each is greater
\* than every identifier assigned before it; every inserted row stays in the
\* table with the fields of the request that inserted it; and the rows a
\* /history request lists are all the rows, in descending identifier order,
\* the row inserted last first.
C7_HistoryOrder ==
    /\ \A i, j \in 1..Len(inserts) : i < j => inserts[i].id < inserts[j].id
    /\ Cardinality(db.emails) = Len(inserts)
    /\ \A i \in 1..Len(inserts) :
        \E e \in db.emails :
            e.id = inserts[i].id /\ Carries(e, Trimmed(inserts[i].by))
    /\ emails # <<>> =>
        /\ Len(emails) = Len(inserts)
        /\ {emails[i] : i \in 1..Len(emails)} = db.emails
        /\ \A i \in 1..(Len(emails) - 1) : emails[i].id > emails[i + 1].id
        /\ emails[1].id = inserts[Len(inserts)].id
        /\ Carries(emails[1], Trimmed(inserts[Len(inserts)].by))

\* C7's case: two requests have inserted rows in alternation, and /history
\* has listed them
C7_Witness ==
    /\ Len(emails) >= 3
    /\ inserts[1].by # inserts[2].by
    /\ inserts[2].by # inserts[3].by

\* C8: /generate-email answers 200 only with an object that has exactly the
\* fields subject and body, both non-empty strings.
C8_DraftShape ==
    gen.resp.status = 200 =>
        /\ gen.resp.json.t = "obj"
        /\ {gen.resp.json.items[i].s : i \in 1..Len(gen.resp.json.items)}
               = {<<"subject">>, <<"body">>}
        /\ \A i \in 1..Len(gen.resp.json.items) :
            /\ gen.resp.json.items[i].items[1].t = "str"
            /\ gen.resp.json.items[i].items[1].s # <<>>

\* C9: two confirm-send requests that fail in the same way, the transport
\* answering with a status other than 202, get the same response whatever
\* the provider's response body says.
C9_FixedErrorMessage ==
    \A r1, r2 \in Reqs :
        (/\ Done(r1) /\ TransportError(resp[r1])
         /\ Done(r2) /\ TransportError(resp[r2])
         /\ resp[r1].text[3] = resp[r2].text[3]) =>
            resp[r1] = resp[r2]

\* C10: the history never holds more records than the transport has accepted
\* POSTs, and every record carries the trimmed recipient, subject and body of
\* one request that had a POST accepted.
C10_RecordsFollowAcceptedPosts ==
    /\ Cardinality(db.emails) <= SumOver(accepted, Reqs)
    /\ \A e \in db.emails :
        \E r \in Reqs : accepted[r] >= 1 /\ Carries(e, Trimmed(r))

\* C10's case: two requests with different fields have each inserted a row,
\* and a POST has been accepted whose row is not yet inserted
C10_Witness ==
    \E r1, r2 \in Reqs :
        /\ Saved(r1) # {} /\ Saved(r2) # {}
        /\ Trimmed(r1).subject # Trimmed(r2).subject
        /\ Trimmed(r1).to_email # Trimmed(r2).to_email
        /\ Cardinality(db.emails) < SumOver(accepted, Reqs)

====
